---- MODULE Spec2Model ----
(***************************************************************************)
(* Model of optimize_tc_distribution.py: the TriggerCellDistributor (bin   *)
(* shifting in the constructor, calc_loss with its assertions, the local   *)
(* variance estimator, train_step) and the epoch loop of optimization().   *)
(*                                                                         *)
(* Tensors of float32 are modelled by sequences of integers.  Every input  *)
(* is integer valued and the phi range has integer bounds, so sums,        *)
(* products and squares are exact; the one division of the loss, the       *)
(* variance's 1/n^2, is kept exact by holding every loss value as an       *)
(* integer multiple of 1/VarScale.                                         *)
(***************************************************************************)
EXTENDS Integers, Sequences, FiniteSets, TLC

VARIABLES
    kw,             \* constructor arguments / run configuration (immutable)
    inbins,         \* self.inbins: the shifted bins held by the distributor
    first_train,    \* self.first_train
    params,         \* self.architecture.trainable_variables (abstract value)
    opt_iter,       \* self.optimizer.iterations (Adam's step counter)
    train_loss,     \* self.train_loss: keras Mean, [total, count]
    store,          \* checkpoints kept by self.manager, oldest first
    pc,             \* position of the program
    epoch,          \* loop variable of optimization()
    should_save,    \* should_save of the current epoch
    original_data,  \* originaldata argument / local of train_step
    prediction,     \* outdata argument / local of train_step
    lossres,        \* what the last calc_loss call did and returned
    loss_sum,       \* local of train_step
    gradients,      \* local of train_step
    phases,         \* history: the phases the current train_step went through
    nupdates,       \* history: number of apply_gradients calls of the run
    summary,        \* what the last save_scalar_logs call wrote
    fwd_params,     \* history: the parameters the last forward pass used
    error           \* the exception that ended the run, "" when none

vars == << kw, inbins, first_train, params, opt_iter, train_loss, store, pc,
           epoch, should_save, original_data, prediction, lossres, loss_sum,
           gradients, summary, phases, nupdates, fwd_params, error >>

-----------------------------------------------------------------------------
(* Bounds of the model *)

MaxLen == 2
MaxBinsLen == 2
MaxEpochs == 41

DataVals == -1 .. 2
BinVals == 0 .. 1
WindowSizes == {1, 2, 3}
NbinsPhis == {1, 2}

-----------------------------------------------------------------------------
(* Program constants *)

CheckpointCadence == 20
MaxToKeep == 5
init_pars == << 1, 0, 1, 1 >>

\* (kw['MinPhi'], kw['MaxPhi'])
phibounds == << 0, 2 >>

-----------------------------------------------------------------------------
(* Tensor helpers *)

RECURSIVE SeqSum(_)
SeqSum(s) == IF s = << >> THEN 0 ELSE s[1] + SeqSum(Tail(s))

RECURSIVE Factorial(_)
Factorial(n) == IF n <= 1 THEN 1 ELSE n * Factorial(n - 1)

\* every loss value v is held as the integer v * VarScale
VarScale == Factorial(MaxLen) * Factorial(MaxLen)

Range(s) == { s[i] : i \in DOMAIN s }

reduce_max(s) == CHOOSE m \in Range(s) : \A x \in Range(s) : x <= m

reduce_min(s) == CHOOSE m \in Range(s) : \A x \in Range(s) : m <= x

Square(x) == x * x

SeqsUpTo(S, n) == UNION { [1..k -> S] : k \in 1..n }

\* python slices t[:b], t[-b:] and t[:-b]
SliceFirst(t, b) == SubSeq(t, 1, IF b < Len(t) THEN b ELSE Len(t))

SliceLast(t, b) ==
    IF b = 0 THEN t
    ELSE SubSeq(t, (IF b < Len(t) THEN Len(t) - b ELSE 0) + 1, Len(t))

SliceDropLast(t, b) ==
    IF b = 0 THEN << >>
    ELSE SubSeq(t, 1, IF b < Len(t) THEN Len(t) - b ELSE 0)

\* tf.concat((tf.ones(b), tf.zeros(n - b)), axis=0)
HeadMask(n, b) == [i \in 1..n |-> IF i <= b THEN 1 ELSE 0]

\* mutant: the shift is max(x) instead of max(x) + 1
subtract_max_plain(x) ==
    LET m == reduce_max(x) IN [i \in DOMAIN x |-> x[i] - m]

\* self.subtract_max = lambda x: x - (tf.math.reduce_max(x)+1)
subtract_max(x) ==
    LET m == reduce_max(x) IN [i \in DOMAIN x |-> x[i] - (m + 1)]

\* mutant: the operation is applied to the masked entries alone, so that the
\* maximum is the one of the boundary slice
tensorflow_assignment_slice(tensor, mask) ==
    LET sel == { tensor[i] : i \in { j \in DOMAIN tensor : mask[j] = 1 } }
        m == CHOOSE y \in sel : \A x \in sel : x <= y
    IN  [i \in DOMAIN tensor |->
            IF mask[i] = 1 THEN tensor[i] - (m + 1) ELSE tensor[i]]

\* lambda_op is self.subtract_max at both call sites
tensorflow_assignment(tensor, mask) ==
    LET other == subtract_max(tensor)
    IN  [i \in DOMAIN tensor |-> tensor[i] * (1 - mask[i]) + other[i] * mask[i]]

cumsum(s) == [i \in DOMAIN s |-> SeqSum(SubSeq(s, 1, i))]

tensorflow_wasserstein_1d_loss(indata, outdata) ==
    LET ci == cumsum(indata)
        co == cumsum(outdata)
    IN  SeqSum([i \in DOMAIN indata |-> Square(ci[i] - co[i])])

\* mutant: only the shapes are compared
are_tensors_equal_shape(t1, t2) ==
    [ raised |-> Len(t1) # Len(t2), value |-> Len(t1) = Len(t2) ]

are_tensors_equal(t1, t2) ==
    [ raised |-> Len(t1) # Len(t2),
      value  |-> Len(t1) = Len(t2)
                 /\ Cardinality({ i \in DOMAIN t1 : t1[i] = t2[i] }) = Len(t1) ]

\* tf.histogram_fixed_width_bins(values, value_range, nbins): floor of
\* nbins * (v - lo) / (hi - lo), clipped to [0, nbins - 1]
Clip(x, lo, hi) == IF x < lo THEN lo ELSE IF x > hi THEN hi ELSE x

histogram_fixed_width_bins(values, value_range, nbins) ==
    [i \in DOMAIN values |->
        Clip((nbins * (values[i] - value_range[1]))
                 \div (value_range[2] - value_range[1]), 0, nbins - 1)]

-----------------------------------------------------------------------------
(* TriggerCellDistributor: derived fields *)

boundary_size == kw.bound_size

boundary_width == kw.window_size - 1

nbinsphi == kw.nbinsphi

pars == init_pars

\* data[idxs] for a boolean mask idxs, given as the set of selected positions
RECURSIVE BooleanMask(_, _)
BooleanMask(data, idxs) ==
    IF data = << >> THEN << >>
    ELSE LET n == Len(data)
             front == BooleanMask(SubSeq(data, 1, n - 1), idxs)
         IN  IF n \in idxs THEN Append(front, data[n]) ELSE front

\* mutant: the second moment, the mean is not subtracted
reduce_variance_raw(x) ==
    LET n == Len(x)
        q == SeqSum([i \in DOMAIN x |-> Square(x[i])])
    IN  (n * q) * (VarScale \div (n * n))

\* tf.math.reduce_variance: mean((x - mean(x))^2) = (n*sum(x^2) - sum(x)^2) / n^2
reduce_variance(x) ==
    LET n == Len(x)
        s == SeqSum(x)
        q == SeqSum([i \in DOMAIN x |-> Square(x[i])])
    IN  (n * q - Square(s)) * (VarScale \div (n * n))

RECURSIVE SetSum(_, _)
SetSum(f, S) ==
    IF S = {} THEN 0
    ELSE LET x == CHOOSE y \in S : TRUE IN f[x] + SetSum(f, S \ {x})

WindowIdxs(bins, ibin) ==
    { i \in DOMAIN bins : bins[i] >= ibin /\ bins[i] <= ibin + boundary_width }

\* the value returned and, per unique bin, what the loop body added
_calc_local_variance(data, bins) ==
    LET unique_bins == Range(SliceDropLast(bins, boundary_size))
        added == [ibin \in unique_bins |->
                     reduce_variance(BooleanMask(data, WindowIdxs(bins, ibin)))]
    IN  [ added |-> added, variance_loss |-> SetSum(added, unique_bins) ]

-----------------------------------------------------------------------------
(* calc_loss.  In eager execution every tf.debugging.Assert raises where it  *)
(* is built, so the statements run in source order up to the first failure. *)

Stages == << "assert_shape", "assert_inbins_min", "assert_inbins_max",
             "histogram", "assert_outbins_min", "assert_outbins_max",
             "shift_outbins", "assert_replicas",
             "equality_loss", "variance_loss", "wasserstein_loss",
             "boundary_sanity_loss" >>

StageNo(name) == CHOOSE k \in DOMAIN Stages : Stages[k] = name

NoLoss ==
    [ ok |-> FALSE, failed_at |-> "", stages |-> << >>,
      inbins_checked |-> << >>, raw_outbins |-> << >>, outbins |-> << >>,
      added |-> << >>, terms |-> << >>, losses |-> << >>, unique |-> {} ]

Raise(r, name) ==
    [ r EXCEPT !.failed_at = name, !.stages = SubSeq(Stages, 1, StageNo(name)) ]

calc_loss(originaldata, outdata) ==
    LET raw_outbins == histogram_fixed_width_bins(outdata, phibounds, nbinsphi)
        r1 == [ NoLoss EXCEPT !.inbins_checked = inbins ]
        r2 == [ r1 EXCEPT !.raw_outbins = raw_outbins ]
        outbins == tensorflow_assignment(raw_outbins,
                                         HeadMask(Len(raw_outbins), boundary_size))
        r3 == [ r2 EXCEPT !.outbins = outbins ]
        replicas == are_tensors_equal(SliceFirst(originaldata, boundary_size),
                                      SliceLast(originaldata, boundary_size))
        equality_loss ==
            VarScale * SeqSum([i \in DOMAIN outdata |->
                                  Square(outdata[i] - originaldata[i])])
        variance == _calc_local_variance(outdata, outbins)
        wasserstein_loss ==
            VarScale * tensorflow_wasserstein_1d_loss(originaldata, outdata)
        tail == SliceLast(outdata, boundary_size)
        head == SliceFirst(outdata, boundary_size)
        boundary_sanity_loss ==
            VarScale * SeqSum([i \in DOMAIN tail |-> Square(tail[i] - head[i])])
    IN  IF Len(originaldata) # Len(outdata) THEN Raise(NoLoss, "assert_shape")
        ELSE IF reduce_min(inbins) # -boundary_width
            THEN Raise(r1, "assert_inbins_min")
        ELSE IF reduce_max(inbins) # nbinsphi - 1
            THEN Raise(r1, "assert_inbins_max")
        ELSE IF ~(reduce_min(raw_outbins) >= 0)
            THEN Raise(r2, "assert_outbins_min")
        ELSE IF ~(reduce_max(raw_outbins) <= nbinsphi - 1)
            THEN Raise(r2, "assert_outbins_max")
        ELSE IF Len(raw_outbins) - boundary_size < 0
            THEN Raise(r2, "shift_outbins")
        ELSE IF replicas.raised \/ ~replicas.value
            THEN Raise(r3, "assert_replicas")
        ELSE [ r3 EXCEPT
                 !.ok = TRUE,
                 !.stages = Stages,
                 !.added = variance.added,
                 !.terms = << equality_loss, variance.variance_loss,
                              wasserstein_loss, boundary_sanity_loss >>,
                 !.losses = [ equality_loss       |-> pars[1] * equality_loss,
                              local_variance_loss |-> pars[2] * variance.variance_loss,
                              wasserstein_loss    |-> pars[3] * wasserstein_loss,
                              boundary_loss       |-> pars[4] * boundary_sanity_loss ],
                 !.unique = Range(SliceDropLast(outbins, boundary_size)) ]

-----------------------------------------------------------------------------
(* Abstract network state.  The layers are a black box: the trainable      *)
(* variables are identified by where they came from and how many optimizer *)
(* updates they have received since.                                       *)

NoParams == [ origin |-> "none", updates |-> 0 ]

InitialParams == [ origin |-> "initializer", updates |-> 0 ]

\* what tf.train.Checkpoint(model=..., optimizer=...) holds
Snapshot(p, it) == [ model |-> p, optimizer |-> it ]

\* a checkpoint left in the directory by an earlier run, after k updates
Earlier(k) == Snapshot([ origin |-> "earlier_run", updates |-> k ], k)

PriorStores ==
    { << >>,
      << Earlier(0) >>,
      << Earlier(0), Earlier(CheckpointCadence), Earlier(2 * CheckpointCadence) >> }

Last(s) == s[Len(s)]

\* self.manager.latest_checkpoint: the newest checkpoint, << >> when there is none
latest_checkpoint == IF store = << >> THEN << >> ELSE << Last(store) >>

\* DataProcessing.postprocess: denormalisation to the phi range
postprocess(v) == [i \in DOMAIN v |-> v[i] * (phibounds[2] - phibounds[1]) + phibounds[1]]

NoMetric == [ total |-> 0, count |-> 0 ]

-----------------------------------------------------------------------------
(* Configurations *)

LossConfigs ==
    { [ inbins |-> b, bound_size |-> bs, window_size |-> w, nbinsphi |-> n,
        pretrained |-> FALSE, Epochs |-> 0, indata |-> << >> ] :
        b \in SeqsUpTo(BinVals, MaxBinsLen), bs \in 0..MaxBinsLen,
        w \in WindowSizes, n \in NbinsPhis }

ExampleConfig ==
    [ inbins |-> << 0, 0, 1, 1, 2, 2, 3, 3, 0, 0 >>, bound_size |-> 2,
      window_size |-> 3, nbinsphi |-> 4,
      pretrained |-> FALSE, Epochs |-> 0, indata |-> << >> ]

\* kw['Epochs']: no epoch, few epochs, and epoch counts around the checkpoint cadence
EpochChoices ==
    { 0, 1, 2, CheckpointCadence, CheckpointCadence + 1, MaxEpochs }

TrainConfigs ==
    { [ inbins |-> b, bound_size |-> 1, window_size |-> w, nbinsphi |-> 2,
        pretrained |-> p, Epochs |-> e, indata |-> d ] :
        b \in [1..2 -> {0, 1}], w \in WindowSizes, p \in BOOLEAN,
        e \in EpochChoices, d \in [1..2 -> {0, 1}] }

NetOutputs == [1..2 -> {0, 1}]

-----------------------------------------------------------------------------
(* Initial states: the arguments of the constructor are chosen, nothing is *)
(* built yet.                                                              *)

Blank ==
    /\ inbins = << >>
    /\ first_train = FALSE
    /\ params = NoParams
    /\ opt_iter = 0
    /\ train_loss = NoMetric
    /\ pc = "new"
    /\ epoch = 0
    /\ should_save = FALSE
    /\ original_data = << >>
    /\ prediction = << >>
    /\ lossres = NoLoss
    /\ loss_sum = 0
    /\ gradients = << >>
    /\ summary = << >>
    /\ phases = << >>
    /\ nupdates = 0
    /\ fwd_params = NoParams
    /\ error = ""

Init ==
    /\ kw \in TrainConfigs
    /\ store \in PriorStores
    /\ Blank

InitLoss ==
    /\ kw \in { c \in LossConfigs : c.bound_size <= Len(c.inbins) } \cup { ExampleConfig }
    /\ store = << >>
    /\ Blank

-----------------------------------------------------------------------------
(* TriggerCellDistributor.__init__ *)

Construct ==
    /\ pc = "new"
    /\ inbins' = tensorflow_assignment(kw.inbins,
                                       HeadMask(Len(kw.inbins), boundary_size))
    /\ first_train' = TRUE
    /\ params' = InitialParams
    /\ opt_iter' = 0
    /\ train_loss' = NoMetric
    /\ pc' = "loop"
    /\ UNCHANGED << kw, store, epoch, should_save, original_data, prediction,
                    lossres, loss_sum, gradients, summary, phases, nupdates,
                    fwd_params, error >>

(* a call of calc_loss on arbitrary arguments *)
CallCalcLoss ==
    /\ pc = "loop"
    /\ \E od \in SeqsUpTo(DataVals, MaxLen), out \in SeqsUpTo(DataVals, MaxLen) :
          /\ original_data' = od
          /\ prediction' = out
          /\ lossres' = calc_loss(od, out)
    /\ pc' = "called"
    /\ UNCHANGED << kw, inbins, first_train, params, opt_iter, train_loss, store,
                    epoch, should_save, loss_sum, gradients, summary, phases,
                    nupdates, fwd_params, error >>

NextLoss == Construct \/ CallCalcLoss

SpecLoss == InitLoss /\ [][NextLoss]_vars

-----------------------------------------------------------------------------
(* optimization(): the epoch loop, lines 334-355 *)

\* for epoch in range(kw['Epochs']): should_save, adapt_loss_parameters, and
\* the call of train_step, whose locals start undefined
ForNext ==
    /\ pc = "loop"
    /\ epoch < kw.Epochs
    /\ should_save' = (epoch % CheckpointCadence = 0)
    /\ original_data' = << >>
    /\ prediction' = << >>
    /\ lossres' = NoLoss
    /\ loss_sum' = 0
    /\ gradients' = << >>
    /\ phases' = << >>
    /\ pc' = "reset"
    /\ UNCHANGED << kw, inbins, first_train, params, opt_iter, train_loss, store,
                    epoch, summary, nupdates, fwd_params, error >>

\* mutant: the loop ends one epoch early
ForExit_early ==
    /\ pc = "loop"
    /\ epoch + 1 >= kw.Epochs
    /\ pc' = "done"
    /\ UNCHANGED << kw, inbins, first_train, params, opt_iter, train_loss, store,
                    epoch, should_save, original_data, prediction, lossres,
                    loss_sum, gradients, summary, phases, nupdates, fwd_params,
                    error >>

ForExit ==
    /\ pc = "loop"
    /\ epoch >= kw.Epochs
    /\ pc' = "done"
    /\ UNCHANGED << kw, inbins, first_train, params, opt_iter, train_loss, store,
                    epoch, should_save, original_data, prediction, lossres,
                    loss_sum, gradients, summary, phases, nupdates, fwd_params,
                    error >>

-----------------------------------------------------------------------------
(* TriggerCellDistributor.train_step, statement by statement *)

\* mutant: the metric is not reset
ResetStates_kept ==
    /\ pc = "reset"
    /\ phases' = Append(phases, "reset")
    /\ pc' = "restore"
    /\ UNCHANGED << kw, inbins, first_train, params, opt_iter, train_loss, store,
                    epoch, should_save, original_data, prediction, lossres,
                    loss_sum, gradients, summary, nupdates, fwd_params, error >>

\* self.train_loss.reset_states()
ResetStates ==
    /\ pc = "reset"
    /\ train_loss' = NoMetric
    /\ phases' = Append(phases, "reset")
    /\ pc' = "restore"
    /\ UNCHANGED << kw, inbins, first_train, params, opt_iter, store, epoch,
                    should_save, original_data, prediction, lossres, loss_sum,
                    gradients, summary, nupdates, fwd_params, error >>

\* mutant: restore_checkpoint does not raise when there is no checkpoint
RestoreIfPretrained_fallback ==
    /\ pc = "restore"
    /\ IF kw.pretrained /\ first_train
       THEN /\ phases' = Append(phases, "restore")
            /\ params' = IF latest_checkpoint # << >>
                          THEN latest_checkpoint[1].model ELSE params
            /\ opt_iter' = IF latest_checkpoint # << >>
                            THEN latest_checkpoint[1].optimizer ELSE opt_iter
            /\ first_train' = FALSE
       ELSE UNCHANGED << phases, params, opt_iter, first_train >>
    /\ pc' = "save"
    /\ UNCHANGED << kw, inbins, train_loss, store, epoch, should_save,
                    original_data, prediction, lossres, loss_sum, gradients,
                    summary, nupdates, fwd_params, error >>

\* mutant: first_train is cleared before restore_checkpoint is called
RestoreIfPretrained_flag ==
    /\ pc = "restore"
    /\ IF kw.pretrained /\ first_train
       THEN /\ phases' = Append(phases, "restore")
            /\ first_train' = FALSE
            /\ IF latest_checkpoint # << >>
               THEN /\ params' = latest_checkpoint[1].model
                    /\ opt_iter' = latest_checkpoint[1].optimizer
                    /\ pc' = "save"
                    /\ error' = error
               ELSE /\ error' = "ValueError"
                    /\ pc' = "failed"
                    /\ UNCHANGED << params, opt_iter >>
       ELSE /\ pc' = "save"
            /\ UNCHANGED << phases, params, opt_iter, first_train, error >>
    /\ UNCHANGED << kw, inbins, train_loss, store, epoch, should_save,
                    original_data, prediction, lossres, loss_sum, gradients,
                    summary, nupdates, fwd_params >>

\* if self.pretrained and self.first_train: restore_checkpoint(); first_train = False
\* restore_checkpoint restores from manager.latest_checkpoint, then raises
\* ValueError when there is none (restoring from None does nothing)
RestoreIfPretrained ==
    /\ pc = "restore"
    /\ IF kw.pretrained /\ first_train
       THEN /\ phases' = Append(phases, "restore")
            /\ IF latest_checkpoint # << >>
               THEN /\ params' = latest_checkpoint[1].model
                    /\ opt_iter' = latest_checkpoint[1].optimizer
                    /\ first_train' = FALSE
                    /\ pc' = "save"
                    /\ error' = error
               ELSE /\ error' = "ValueError"
                    /\ pc' = "failed"
                    /\ UNCHANGED << params, opt_iter, first_train >>
       ELSE /\ pc' = "save"
            /\ UNCHANGED << phases, params, opt_iter, first_train, error >>
    /\ UNCHANGED << kw, inbins, train_loss, store, epoch, should_save,
                    original_data, prediction, lossres, loss_sum, gradients,
                    summary, nupdates, fwd_params >>

\* CheckpointManager.save() with max_to_keep
ManagerSave(s, snap) ==
    LET all == Append(s, snap)
    IN  IF Len(all) > MaxToKeep THEN Tail(all) ELSE all

\* mutant: the save argument is ignored
SaveIfSelected_always ==
    /\ pc = "save"
    /\ IF ~kw.pretrained
       THEN /\ store' = ManagerSave(store, Snapshot(params, opt_iter))
            /\ phases' = Append(phases, "checkpoint")
       ELSE UNCHANGED << store, phases >>
    /\ pc' = "forward"
    /\ UNCHANGED << kw, inbins, first_train, params, opt_iter, train_loss, epoch,
                    should_save, original_data, prediction, lossres, loss_sum,
                    gradients, summary, nupdates, fwd_params, error >>

\* if save and not self.pretrained: self.save_checkpoint()
SaveIfSelected ==
    /\ pc = "save"
    /\ IF should_save /\ ~kw.pretrained
       THEN /\ store' = ManagerSave(store, Snapshot(params, opt_iter))
            /\ phases' = Append(phases, "checkpoint")
       ELSE UNCHANGED << store, phases >>
    /\ pc' = "forward"
    /\ UNCHANGED << kw, inbins, first_train, params, opt_iter, train_loss, epoch,
                    should_save, original_data, prediction, lossres, loss_sum,
                    gradients, summary, nupdates, fwd_params, error >>

\* mutant: the forward pass builds the layers anew
Forward_rebuild ==
    /\ pc = "forward"
    /\ \E net \in NetOutputs : prediction' = postprocess(net)
    /\ original_data' = postprocess(kw.indata)
    /\ params' = InitialParams
    /\ fwd_params' = InitialParams
    /\ phases' = Append(phases, "forward")
    /\ pc' = "loss"
    /\ UNCHANGED << kw, inbins, first_train, opt_iter, train_loss, store,
                    epoch, should_save, lossres, loss_sum, gradients, summary,
                    nupdates, error >>

\* prediction = dp.postprocess(self.architecture(self.indata))
\* original_data = dp.postprocess(self.indata)
Forward ==
    /\ pc = "forward"
    /\ \E net \in NetOutputs : prediction' = postprocess(net)
    /\ original_data' = postprocess(kw.indata)
    /\ fwd_params' = params
    /\ phases' = Append(phases, "forward")
    /\ pc' = "loss"
    /\ UNCHANGED << kw, inbins, first_train, params, opt_iter, train_loss, store,
                    epoch, should_save, lossres, loss_sum, gradients, summary,
                    nupdates, error >>

\* losses, _ = self.calc_loss(original_data, prediction)
\* loss_sum = tf.reduce_sum(list(losses.values()))
Loss ==
    /\ pc = "loss"
    /\ \E r \in { calc_loss(original_data, prediction) } :
           /\ lossres' = r
           /\ phases' = Append(phases, "loss")
           /\ IF r.ok
              THEN /\ loss_sum' = r.losses.equality_loss + r.losses.local_variance_loss
                                  + r.losses.wasserstein_loss + r.losses.boundary_loss
                   /\ pc' = "gradient"
                   /\ error' = error
              ELSE /\ error' = "InvalidArgumentError"
                   /\ pc' = "failed"
                   /\ loss_sum' = loss_sum
    /\ UNCHANGED << kw, inbins, first_train, params, opt_iter, train_loss, store,
                    epoch, should_save, original_data, prediction, gradients,
                    summary, nupdates, fwd_params >>

\* gradients = tape.gradient(loss_sum, self.architecture.trainable_variables)
Gradient ==
    /\ pc = "gradient"
    /\ gradients' = << [ of |-> loss_sum, wrt |-> params ] >>
    /\ phases' = Append(phases, "gradient")
    /\ pc' = "update"
    /\ UNCHANGED << kw, inbins, first_train, params, opt_iter, train_loss, store,
                    epoch, should_save, original_data, prediction, lossres,
                    loss_sum, summary, nupdates, fwd_params, error >>

\* self.optimizer.apply_gradients(zip(gradients, trainable_variables))
ApplyGradients ==
    /\ pc = "update"
    /\ params' = [ params EXCEPT !.updates = @ + 1 ]
    /\ opt_iter' = opt_iter + 1
    /\ nupdates' = nupdates + 1
    /\ phases' = Append(phases, "update")
    /\ pc' = "metric"
    /\ UNCHANGED << kw, inbins, first_train, train_loss, store, epoch,
                    should_save, original_data, prediction, lossres, loss_sum,
                    gradients, summary, fwd_params, error >>

\* self.train_loss(loss_sum); return
UpdateMetric ==
    /\ pc = "metric"
    /\ train_loss' = [ total |-> train_loss.total + loss_sum,
                       count |-> train_loss.count + 1 ]
    /\ phases' = Append(phases, "metric")
    /\ pc' = "log"
    /\ UNCHANGED << kw, inbins, first_train, params, opt_iter, store, epoch,
                    should_save, original_data, prediction, lossres, loss_sum,
                    gradients, summary, nupdates, fwd_params, error >>

\* save_scalar_logs, save_gradient_logs, plotter calls; then the next epoch
Log ==
    /\ pc = "log"
    /\ summary' = << [ step  |-> epoch,
                       total |-> lossres.losses.equality_loss
                                 + lossres.losses.local_variance_loss
                                 + lossres.losses.wasserstein_loss
                                 + lossres.losses.boundary_loss ] >>
    /\ epoch' = epoch + 1
    /\ pc' = "loop"
    /\ UNCHANGED << kw, inbins, first_train, params, opt_iter, train_loss, store,
                    should_save, original_data, prediction, lossres, loss_sum,
                    gradients, phases, nupdates, fwd_params, error >>

Next ==
    \/ Construct
    \/ ForNext
    \/ ForExit
    \/ ResetStates
    \/ RestoreIfPretrained
    \/ SaveIfSelected
    \/ Forward
    \/ Loss
    \/ Gradient
    \/ ApplyGradients
    \/ UpdateMetric
    \/ Log

Spec == Init /\ [][Next]_vars

-----------------------------------------------------------------------------
(* Properties of the constructor and of calc_loss, checked under SpecLoss *)

TermStages == { "equality_loss", "variance_loss", "wasserstein_loss",
                "boundary_sanity_loss" }

IsMax(m, s) == m \in Range(s) /\ \A x \in Range(s) : x <= m

IsMin(m, s) == m \in Range(s) /\ \A x \in Range(s) : m <= x

\* r is s with max(s) + 1 subtracted from its first b entries
ShiftedBy(r, s, b) ==
    /\ Len(r) = Len(s)
    /\ \E m \in Range(s) :
          /\ IsMax(m, s)
          /\ \A i \in DOMAIN s : r[i] = IF i <= b THEN s[i] - (m + 1) ELSE s[i]

\* the preconditions calc_loss checks, on its two arguments
Preconditions(originaldata, outdata) ==
    LET raw == histogram_fixed_width_bins(outdata, phibounds, kw.nbinsphi)
        N == Len(originaldata)
        B == kw.bound_size
    IN  /\ Len(originaldata) = Len(outdata)
        /\ IsMin(-(kw.window_size - 1), inbins)
        /\ IsMax(kw.nbinsphi - 1, inbins)
        /\ \A i \in DOMAIN raw : 0 <= raw[i] /\ raw[i] <= kw.nbinsphi - 1
        /\ B >= 1
        /\ B <= N
        /\ \A i \in 1..B : originaldata[i] = originaldata[N - B + i]

\* C1: calc_loss returns a loss mapping only if every checked precondition
\* holds (equal lengths, min and max of the shifted inbins, raw outbins in
\* range, head and tail boundary slices of originaldata equal); when one is
\* false it fails, returns nothing, and has computed none of the four terms.
C1_LossOnlyUnderPreconditions ==
    pc = "called" =>
        /\ lossres.ok => Preconditions(original_data, prediction)
        /\ ~Preconditions(original_data, prediction) =>
              /\ ~lossres.ok
              /\ lossres.failed_at # ""
              /\ lossres.losses = << >>
              /\ lossres.terms = << >>
              /\ Range(lossres.stages) \cap TermStages = {}

\* the replicas differ although every earlier check passed
C1_Witness ==
    /\ pc = "called"
    /\ lossres.failed_at = "assert_replicas"
    /\ kw.bound_size >= 1
    /\ kw.bound_size < Len(original_data)
    /\ Len(original_data) = Len(prediction)

\* C2: the Bin Index Transform subtracts max(s) + 1, the maximum of the whole
\* input, from the entries at positions [0, B) and leaves the others as they
\* are, for the constructor's inbins and for calc_loss's outbins; the input
\* is not modified.
C2_BinIndexTransform ==
    /\ pc # "new" => ShiftedBy(inbins, kw.inbins, kw.bound_size)
    /\ (pc = "called" /\ lossres.outbins # << >>) =>
          /\ ShiftedBy(lossres.outbins, lossres.raw_outbins, kw.bound_size)
          /\ lossres.raw_outbins =
                 histogram_fixed_width_bins(prediction, phibounds, kw.nbinsphi)

\* a shift whose maximum lies outside the boundary slice
C2_Witness ==
    /\ pc # "new"
    /\ kw.bound_size >= 1
    /\ kw.bound_size < Len(kw.inbins)
    /\ \E i \in DOMAIN kw.inbins :
          /\ i > kw.bound_size
          /\ \A j \in 1..kw.bound_size : kw.inbins[j] < kw.inbins[i]
    /\ inbins # kw.inbins

\* the windows of the last calc_loss call
WindowOf(b) ==
    { i \in DOMAIN lossres.outbins :
         b <= lossres.outbins[i] /\ lossres.outbins[i] <= b + (kw.window_size - 1) }

\* C6: in _calc_local_variance every distinct bin of bins[0 : N-boundary_size]
\* whose window selects exactly one index adds exactly 0 (no window is empty,
\* nothing is divided by zero); when every window selects a single index the
\* estimator returns 0.
C6_SingleIndexWindow ==
    (pc = "called" /\ lossres.ok) =>
        /\ DOMAIN lossres.added =
               { lossres.outbins[i] : i \in 1..(Len(lossres.outbins) - kw.bound_size) }
        /\ \A b \in DOMAIN lossres.added :
              /\ WindowOf(b) # {}
              /\ Cardinality(WindowOf(b)) = 1 => lossres.added[b] = 0
        /\ (\A b \in DOMAIN lossres.added : Cardinality(WindowOf(b)) = 1)
               => lossres.terms[2] = 0

\* a window of one index whose value is not 0
C6_Witness ==
    /\ pc = "called"
    /\ lossres.ok
    /\ \E b \in DOMAIN lossres.added :
          /\ Cardinality(WindowOf(b)) = 1
          /\ \A i \in WindowOf(b) : prediction[i] # 0

ExampleShifted == << -4, -4, 1, 1, 2, 2, 3, 3, 0, 0 >>

\* C7: for N=10, B=2, window_size=3, nbins_phi=4 and input bins
\* [0,0,1,1,2,2,3,3,0,0] the distributor holds exactly
\* [-4,-4,1,1,2,2,3,3,0,0] (minimum -4, maximum 3), and that sequence is the
\* one calc_loss evaluates its inbins range assertions on.
C7_EndToEndExample ==
    (kw = ExampleConfig /\ pc # "new") =>
        /\ inbins = ExampleShifted
        /\ IsMin(-4, inbins)
        /\ IsMax(3, inbins)
        /\ (pc = "called" /\ Len(original_data) = Len(prediction)) =>
              /\ lossres.inbins_checked = ExampleShifted
              /\ "assert_inbins_min" \in Range(lossres.stages)

C7_Witness ==
    /\ kw = ExampleConfig
    /\ pc = "called"
    /\ lossres.inbins_checked # << >>

-----------------------------------------------------------------------------
(* Properties of the training loop, checked under Spec *)

InStep == { "reset", "restore", "save", "forward", "loss", "gradient", "update",
            "metric", "log" }

PastSave == { "forward", "loss", "gradient", "update", "metric", "log" }

Selected == epoch % CheckpointCadence = 0

\* a train_step call is under way or has failed: phases is its history
\* (between calls epoch is already the next one)
InCall == pc \in InStep \cup { "failed" }

\* position of a phase in the history of the current step, 0 when absent
PhaseAt(name) ==
    IF name \in Range(phases)
    THEN CHOOSE i \in DOMAIN phases : phases[i] = name
    ELSE 0

\* the phases of a completed step
ExpectedPhases ==
    << "reset" >>
    \o (IF kw.pretrained /\ epoch = 0 THEN << "restore" >> ELSE << >>)
    \o (IF ~kw.pretrained /\ Selected THEN << "checkpoint" >> ELSE << >>)
    \o << "forward", "loss", "gradient", "update", "metric" >>

IsPrefix(a, b) == Len(a) <= Len(b) /\ a = SubSeq(b, 1, Len(a))

\* C3: in a pretrained run a restore is attempted in the first train_step
\* call and in no later one, before the forward pass; when there is no
\* checkpoint the step fails with ValueError without forward pass, loss or
\* parameter update (the initial parameters are never used as a fallback).
\* In a run that is not pretrained no restore is attempted.
C3_RestoreOnlyFirstStep ==
    /\ (InCall /\ "restore" \in Range(phases)) => kw.pretrained /\ epoch = 0
    /\ (kw.pretrained /\ epoch = 0 /\ pc \in (InStep \ { "reset", "restore" }))
          => /\ "restore" \in Range(phases)
             /\ ~first_train
             /\ params.origin = "earlier_run"
    /\ (pc # "new" /\ ~first_train) => kw.pretrained
    /\ ("restore" \in Range(phases) /\ "forward" \in Range(phases))
          => PhaseAt("restore") < PhaseAt("forward")
    /\ (kw.pretrained /\ store = << >>) =>
          /\ pc \in { "new", "loop", "reset", "restore", "failed", "done" }
          /\ pc = "done" => kw.Epochs = 0
          /\ pc = "failed" =>
                /\ error = "ValueError"
                /\ phases = << "reset", "restore" >>
                /\ prediction = << >>
                /\ lossres = NoLoss
                /\ gradients = << >>
                /\ nupdates = 0
                /\ params = InitialParams

\* the first step of a pretrained run fails for want of a checkpoint
C3_Witness ==
    /\ kw.pretrained
    /\ store = << >>
    /\ pc = "failed"
    /\ error = "ValueError"

C8_MetricIsSingleStep ==
    /\ pc \in { "restore", "save", "forward", "loss", "gradient", "update", "metric" }
          => train_loss = NoMetric
    /\ (pc = "log" \/ (pc \in { "loop", "done" } /\ epoch > 0)) =>
          /\ train_loss.count = 1
          /\ train_loss.total = loss_sum * train_loss.count
          /\ lossres.ok
          /\ loss_sum = pars[1] * lossres.terms[1] + pars[2] * lossres.terms[2]
                        + pars[3] * lossres.terms[3] + pars[4] * lossres.terms[4]

\* a later step whose objective differs from the one logged for the step before
C8_Witness ==
    /\ pc = "log"
    /\ epoch >= 1
    /\ summary # << >>
    /\ summary[1].total # loss_sum
    /\ summary[1].total > 0
    /\ loss_sum > 0

\* the state part of C9: order of the phases and the counts of steps and updates
C9_Order ==
    /\ pc \in InStep => IsPrefix(phases, ExpectedPhases)
    /\ pc = "log" => phases = ExpectedPhases
    /\ pc \in { "loop", "reset", "restore", "save", "forward", "loss", "gradient",
                "update" } => nupdates = epoch
    /\ pc \in { "metric", "log" } => nupdates = epoch + 1
    /\ pc \in InStep => epoch < kw.Epochs
    /\ pc = "done" => epoch = kw.Epochs /\ nupdates = kw.Epochs /\ error = ""

PcOrder == << "new", "loop", "reset", "restore", "save", "forward", "loss",
             "gradient", "update", "metric", "log" >>

\* how far the run has come: the epoch, then the position within the step
Rank ==
    IF pc \in { "done", "failed" }
    THEN (epoch + 1) * Len(PcOrder)
    ELSE epoch * Len(PcOrder) + ((CHOOSE i \in DOMAIN PcOrder : PcOrder[i] = pc) - 1)

\* some statement can be executed (the call of calc_loss at "loss" always can:
\* it returns or raises)
CanStep ==
    \/ pc = "loss"
    \/ ENABLED (Construct \/ ForNext \/ ForExit \/ ResetStates
                   \/ RestoreIfPretrained \/ SaveIfSelected \/ Forward
                   \/ Gradient \/ ApplyGradients \/ UpdateMetric \/ Log)

\* C9: within a step the phases run in the order restore (pretrained, first
\* step), checkpoint (selected, not pretrained), forward, loss, gradient, one
\* optimizer update, metric update; a step's update is done before the next
\* step's forward pass; a run without fatal failure makes exactly Epochs steps
\* and Epochs optimizer updates and then terminates: until it is done or has
\* failed a step can be taken, and every step brings it closer to the end.
C9_SequentialSteps ==
    /\ []C9_Order
    /\ [](pc \in { "done", "failed" } \/ CanStep)
    /\ [][Rank' > Rank /\ Rank' <= (kw.Epochs + 1) * Len(PcOrder)]_vars

\* the longest run has ended
C9_Witness ==
    /\ pc = "done"
    /\ kw.Epochs = MaxEpochs
    /\ nupdates = MaxEpochs

\* C10: a train_step that fails applies no optimizer update: after a calc_loss
\* failure the parameters are those the forward pass used; after a missing
\* checkpoint first_train is still true; a checkpoint selected for the step
\* of a run that is not pretrained has been written before the failure.
C10_FailureAppliesNoUpdate ==
    pc = "failed" =>
        /\ "update" \notin Range(phases)
        /\ nupdates = epoch
        /\ error \in { "InvalidArgumentError", "ValueError" }
        /\ error = "InvalidArgumentError" =>
              /\ "forward" \in Range(phases)
              /\ ~lossres.ok
              /\ params = fwd_params
        /\ error = "ValueError" =>
              /\ first_train
              /\ kw.pretrained
              /\ params = InitialParams
        /\ (~kw.pretrained /\ Selected) =>
              /\ "checkpoint" \in Range(phases)
              /\ Last(store).model = params

\* calc_loss fails in a step that has written its checkpoint
C10_Witness ==
    /\ pc = "failed"
    /\ error = "InvalidArgumentError"
    /\ ~kw.pretrained
    /\ "checkpoint" \in Range(phases)

====
